---- MODULE Spec2Model ----
(***************************************************************************)
(* notlex: a regular-expression AST is compiled by NFABuilder into an NFA  *)
(* (transition table + accepting set), which is then simulated with a live *)
(* state set (reset / feed / run / check_accepting).                       *)
(***************************************************************************)
EXTENDS Integers, Sequences, FiniteSets, TLC

\* ---------------------------------------------------------------- bounds
\* characters are 1..MaxChar ('a' = 1, 'b' = 2, ...)
MaxChar == 2
\* largest number of AST nodes of a Regex
MaxNodes == 3
\* largest number of characters consumed between two resets
MaxLen == 2
\* the same two bounds where the Regex is an alternation
MaxOrNodes == 4
MaxOrLen == 3
\* largest number of CharSet leaves of a right-nested Seq
MaxChain == 2
\* MaxNodes and MaxLen where two automata are driven side by side
MaxTwoNodes == 2
MaxTwoLen == 1
\* deepest nesting of Plus, and longest chain of Ques, where sizes are counted
MaxDepth == 4
\* largest factor k tried for "states <= k * nodes"
MaxFactor == 3

Chars == 1..MaxChar

\* ---------------------------------------------------------------- CharSet
SingleChar(c) == [tag |-> "SingleChar", c |-> c]
Range(lo, hi) == [tag |-> "Range", lo |-> lo, hi |-> hi]
AnyChar == [tag |-> "AnyChar"]
Diff(include, exclude) == [tag |-> "Diff", include |-> include, exclude |-> exclude]
Union(css) == [tag |-> "Union", css |-> css]
Epsilon == [tag |-> "Epsilon"]

RECURSIVE test(_, _)
RECURSIVE UnionTest(_, _, _)
\* UnionTest that returns what the first member answers
UnionTest_FirstOnly(css, i, c) ==
    IF i > Len(css) THEN FALSE ELSE test(css[i], c)

\* the for loop of the Union arm: first member that matches returns true
UnionTest(css, i, c) ==
    IF i > Len(css) THEN FALSE
    ELSE IF test(css[i], c) THEN TRUE
    ELSE UnionTest(css, i + 1, c)

\* test with the lower end of a Range excluded
test_OpenRange(cs, c) ==
    CASE cs.tag = "SingleChar" -> cs.c = c
      [] cs.tag = "Range" -> c > cs.lo /\ c <= cs.hi
      [] cs.tag = "AnyChar" -> TRUE
      [] cs.tag = "Diff" -> test(cs.include, c) /\ ~test(cs.exclude, c)
      [] cs.tag = "Union" -> UnionTest(cs.css, 1, c)
      [] cs.tag = "Epsilon" -> TRUE

test(cs, c) ==
    CASE cs.tag = "SingleChar" -> cs.c = c
      [] cs.tag = "Range" -> c >= cs.lo /\ c <= cs.hi
      [] cs.tag = "AnyChar" -> TRUE
      [] cs.tag = "Diff" -> test(cs.include, c) /\ ~test(cs.exclude, c)
      [] cs.tag = "Union" -> UnionTest(cs.css, 1, c)
      [] cs.tag = "Epsilon" -> TRUE

\* ---------------------------------------------------------------- Regex
ReEps == [tag |-> "Eps"]
ReCharSet(cs) == [tag |-> "CharSet", cs |-> cs]
ReSeq(r1, r2) == [tag |-> "Seq", r1 |-> r1, r2 |-> r2]
ReOr(r1, r2) == [tag |-> "Or", r1 |-> r1, r2 |-> r2]
ReStar(r) == [tag |-> "Star", r |-> r]
RePlus(r) == [tag |-> "Plus", r |-> r]
ReQues(r) == [tag |-> "Ques", r |-> r]

\* ---------------------------------------------------------------- NFABuilder
\* a builder is [next_state, transitions]; transitions maps a state that has
\* outgoing transitions to the vector of its <<CharSet, target>> pairs
NewBuilder == [next_state |-> 1, transitions |-> <<>>]

\* new_state without the increment
new_state_NoIncrement(b) == [b |-> b, ret |-> b.next_state]

new_state(b) == [b |-> [b EXCEPT !.next_state = b.next_state + 1], ret |-> b.next_state]

add_transition(b, from, cs, to) ==
    LET ts == b.transitions IN
    [b EXCEPT !.transitions =
        IF from \in DOMAIN ts
        THEN [ts EXCEPT ![from] = Append(ts[from], <<cs, to>>)]
        ELSE [k \in (DOMAIN ts) \cup {from} |->
                 IF k = from THEN << <<cs, to>> >> ELSE ts[k]]]

RECURSIVE CharSetLoop(_, _, _, _, _)
\* CharSetLoop that allocates once and points every frontier state at that target
CharSetLoop_OneTarget(b, current_states, i, cs, next_states) ==
    IF i > Len(current_states) THEN [b |-> b, out |-> next_states]
    ELSE IF next_states = <<>>
    THEN LET ns == new_state(b)
             b2 == add_transition(ns.b, current_states[i], cs, ns.ret)
         IN CharSetLoop(b2, current_states, i + 1, cs, <<ns.ret>>)
    ELSE CharSetLoop(add_transition(b, current_states[i], cs, next_states[1]),
                     current_states, i + 1, cs, next_states)

\* the loop of the CharSet arm over current_states, from index i
CharSetLoop(b, current_states, i, cs, next_states) ==
    IF i > Len(current_states) THEN [b |-> b, out |-> next_states]
    ELSE LET ns == new_state(b)
             b2 == add_transition(ns.b, current_states[i], cs, ns.ret)
         IN CharSetLoop(b2, current_states, i + 1, cs, Append(next_states, ns.ret))

\* the inner loop of the Star arm: next_state --Epsilon--> current_states[j] for
\* every j, pushed in order onto the vector of next_state
StarInner(b, next_state, current_states) ==
    LET ts == b.transitions
        pushed == [j \in 1..Len(current_states) |-> <<Epsilon, current_states[j]>>]
    IN IF current_states = <<>> THEN b
       ELSE [b EXCEPT !.transitions =
                IF next_state \in DOMAIN ts
                THEN [ts EXCEPT ![next_state] = ts[next_state] \o pushed]
                ELSE [k \in (DOMAIN ts) \cup {next_state} |->
                         IF k = next_state THEN pushed ELSE ts[k]]]

RECURSIVE StarLoop(_, _, _, _)
\* the outer loop of the Star arm over next_states, from index i
StarLoop(b, next_states, i, current_states) ==
    IF i > Len(next_states) THEN b
    ELSE StarLoop(StarInner(b, next_states[i], current_states),
                  next_states, i + 1, current_states)

RECURSIVE add_regex(_, _, _)

EpsArm(b, current_states) == [b |-> b, out |-> current_states]

CharSetArm(b, current_states, cs) == CharSetLoop(b, current_states, 1, cs, <<>>)

\* SeqArm with r2 built from current_states instead of the exits of r1
SeqArm_FromCurrent(b, current_states, r1, r2) ==
    LET a1 == add_regex(b, current_states, r1)
    IN add_regex(a1.b, current_states, r2)

SeqArm(b, current_states, r1, r2) ==
    LET a1 == add_regex(b, current_states, r1)
    IN add_regex(a1.b, a1.out, r2)

OrArm(b, current_states, r1, r2) ==
    LET a1 == add_regex(b, current_states, r1)
        a2 == add_regex(a1.b, current_states, r2)
    IN [b |-> a2.b, out |-> a1.out \o a2.out]

\* StarArm without the Epsilon transitions back to current_states
StarArm_NoLoopBack(b, current_states, r) ==
    LET a == add_regex(b, current_states, r)
    IN [b |-> a.b, out |-> current_states]

StarArm(b, current_states, r) ==
    LET a == add_regex(b, current_states, r)
    IN [b |-> StarLoop(a.b, a.out, 1, current_states), out |-> current_states]

\* PlusArm built as Star: the first, mandatory copy of r is missing
PlusArm_AsStar(b, current_states, r) == StarArm(b, current_states, r)

\* PlusArm with one copy of r whose exits loop back to themselves
PlusArm_SharedBody(b, current_states, r) ==
    LET a1 == add_regex(b, current_states, r)
    IN [b |-> StarLoop(a1.b, a1.out, 1, a1.out), out |-> a1.out]

PlusArm(b, current_states, r) ==
    LET a1 == add_regex(b, current_states, r)
    IN add_regex(a1.b, a1.out, ReStar(r))

\* QuesArm that returns the exits of r only
QuesArm_NoSkip(b, current_states, r) ==
    LET a2 == add_regex(b, current_states, r)
    IN [b |-> a2.b, out |-> a2.out]

QuesArm(b, current_states, r) ==
    LET a2 == add_regex(b, current_states, r)
    IN [b |-> a2.b, out |-> current_states \o a2.out]

\* the match of add_regex; the builder it is called on has been computed by then
\* (the calls of an arm run in sequence), its counter never below 1
add_regex(b, current_states, regex) ==
    LET tag == IF b.next_state >= 1 THEN regex.tag ELSE "unreachable"
    IN CASE tag = "Eps" -> EpsArm(b, current_states)
         [] tag = "CharSet" -> CharSetArm(b, current_states, regex.cs)
         [] tag = "Seq" -> SeqArm(b, current_states, regex.r1, regex.r2)
         [] tag = "Or" -> OrArm(b, current_states, regex.r1, regex.r2)
         [] tag = "Star" -> StarArm(b, current_states, regex.r)
         [] tag = "Plus" -> PlusArm(b, current_states, regex.r)
         [] tag = "Ques" -> QuesArm(b, current_states, regex.r)

SeqToSet(s) == {s[i] : i \in 1..Len(s)}

\* ---------------------------------------------------------------- NFA
\* EpsPassNew without the contains test on the target
EpsPassNew_NoContainsCheck(trans, cur) ==
    {t \in UNION {{ts[2] : ts \in SeqToSet(trans[s])} : s \in cur \cap DOMAIN trans} :
        \E s \in cur \cap DOMAIN trans : \E i \in 1..Len(trans[s]) :
            trans[s][i][1].tag = "Epsilon" /\ trans[s][i][2] = t}

\* targets of Epsilon transitions leaving cur that are not in cur: one pass of
\* the for loops of take_epsilons
EpsPassNew(trans, cur) ==
    {t \in UNION {{ts[2] : ts \in SeqToSet(trans[s])} : s \in cur \cap DOMAIN trans} :
        /\ t \notin cur
        /\ \E s \in cur \cap DOMAIN trans : \E i \in 1..Len(trans[s]) :
              trans[s][i][1].tag = "Epsilon" /\ trans[s][i][2] = t}

RECURSIVE take_epsilons(_, _)
take_epsilons(trans, cur) ==
    LET new_states == EpsPassNew(trans, cur)
    IN IF new_states = {} THEN cur
       ELSE take_epsilons(trans, cur \cup new_states)

\* the for loops of step: every transition of a live state is tested with test
StepTargets(trans, cur, c) ==
    {t \in UNION {{ts[2] : ts \in SeqToSet(trans[s])} : s \in cur \cap DOMAIN trans} :
        \E s \in cur \cap DOMAIN trans : \E i \in 1..Len(trans[s]) :
            test(trans[s][i][1], c) /\ trans[s][i][2] = t}

\* step without the closing take_epsilons
step_NoClosure(trans, cur, c) == StepTargets(trans, cur, c)

\* step that restarts from state 0 when it finds the live set empty
step_RestartWhenEmpty(trans, cur, c) ==
    LET from == IF cur = {} THEN take_epsilons(trans, {0}) ELSE cur
    IN take_epsilons(trans, StepTargets(trans, from, c))

step(trans, cur, c) == take_epsilons(trans, StepTargets(trans, cur, c))

\* reset without the clear
reset_NoClear(trans, cur) == take_epsilons(trans, cur \cup {0})

\* clear, insert(0), take_epsilons
reset(trans, cur) ==
    LET cleared == {}
        inserted == cleared \cup {0}
    IN take_epsilons(trans, inserted)

\* check_accepting that wants every live state accepting
check_accepting_All(cur, acc) == \A state \in cur : state \in acc

check_accepting(cur, acc) == \E state \in cur : state \in acc

RECURSIVE run_loop(_, _, _)
\* the loop of run: step on every character of chars
run_loop(trans, cur, chars) ==
    IF chars = <<>> THEN cur
    ELSE run_loop(trans, step(trans, cur, Head(chars)), Tail(chars))

\* run that resets before it consumes
run_ResetsFirst(trans, acc, cur, chars) ==
    LET after == run_loop(trans, reset(trans, cur), chars)
    IN [cur_states |-> after, ret |-> check_accepting(after, acc)]

\* run: the live set it leaves and the boolean it returns
run(trans, acc, cur, chars) ==
    LET after == run_loop(trans, cur, chars)
    IN [cur_states |-> after, ret |-> check_accepting(after, acc)]

\* NFA::new: an empty live set, then reset
new(trans, acc) ==
    [transitions |-> trans, accepting |-> acc, cur_states |-> reset(trans, {})]

build(regex) ==
    LET a == add_regex(NewBuilder, <<0>>, regex)
    IN new(a.b.transitions, SeqToSet(a.out))

\* the states NFABuilder::build(regex) has allocated when it returns
Allocated(regex) == add_regex(NewBuilder, <<0>>, regex).b.next_state - 1

\* ---------------------------------------------------------------- inputs
LeafCharSets == {SingleChar(1), Diff(AnyChar, SingleChar(1))}

RECURSIVE RegexOfSize(_)
\* every Regex with exactly n AST nodes over LeafCharSets
RegexOfSize(n) ==
    IF n = 1 THEN {ReEps} \cup {ReCharSet(cs) : cs \in LeafCharSets}
    ELSE LET sub == RegexOfSize(n - 1)
             pairs == UNION {RegexOfSize(k) \X RegexOfSize(n - 1 - k) : k \in 1..(n - 2)}
         IN {ReStar(r) : r \in sub} \cup {RePlus(r) : r \in sub}
            \cup {ReQues(r) : r \in sub}
            \cup {ReSeq(p[1], p[2]) : p \in pairs} \cup {ReOr(p[1], p[2]) : p \in pairs}

Regexes(n) == UNION {RegexOfSize(k) : k \in 1..n}

OrRegexes(n) == {r \in Regexes(n) : r.tag = "Or"}

ChainLeafCharSets ==
    {SingleChar(1), Range(1, 2), Diff(AnyChar, SingleChar(1)),
     Union(<<SingleChar(2), SingleChar(3)>>)}

RECURSIVE Chains(_)
\* the right-nested Seq of exactly n CharSet leaves
Chains(n) ==
    IF n = 1 THEN {ReCharSet(cs) : cs \in ChainLeafCharSets}
    ELSE {ReSeq(ReCharSet(cs), r) : cs \in ChainLeafCharSets, r \in Chains(n - 1)}

Strings(n) == UNION {[1..k -> Chars] : k \in 0..n}

\* ---------------------------------------------------------------- state
VARIABLES
    regex,          \* the Regex given to NFABuilder::build
    transitions,    \* NFA.transitions
    accepting,      \* NFA.accepting
    cur_states,     \* NFA.cur_states
    pc,             \* "idle" between calls, "step" and "take_epsilons" inside their loops
    eps_start,      \* cur_states when the running take_epsilons was entered
    last_op,        \* the last call made on the NFA, with its arguments
    prev_states,    \* cur_states when that call was made
    fed,            \* the characters consumed since construction or the last reset
    ret,            \* {} after a call that returns nothing, else {returned bool}
    tested,         \* {} or the last call of CharSet::test: {[cs, c, ret]}
    second,         \* a second NFA built from regex: its cur_states, fed and ret
    iter            \* the for loop in progress: live states still to visit, new_states

\* what the specifications of one NFA driven call by call leave untouched
aux == <<tested, second, iter>>

vars == <<regex, transitions, accepting, cur_states, pc, eps_start,
          last_op, prev_states, fed, ret, tested, second, iter>>

NoSecond == [cur_states |-> {}, fed |-> <<>>, ret |-> {}]

NoIter == [todo |-> {}, new_states |-> {}]

AuxIdle == tested = {} /\ second = NoSecond /\ iter = NoIter

\* NFABuilder::build(r): the automaton as NFA::new returns it
BuiltFirst(r) ==
    LET nfa == build(r) IN
    /\ regex = r
    /\ transitions = nfa.transitions
    /\ accepting = nfa.accepting
    /\ cur_states = nfa.cur_states
    /\ pc = "idle"
    /\ eps_start = {}
    /\ last_op = [op |-> "new"]
    /\ prev_states = {}
    /\ fed = <<>>
    /\ ret = {}

Built(r) == BuiltFirst(r) /\ AuxIdle

Init == \E r \in Regexes(MaxNodes) : Built(r)

InitOr == \E r \in OrRegexes(MaxOrNodes) : Built(r)

InitSeq == \E n \in 1..MaxChain : \E r \in Chains(n) : Built(r)

Reset ==
    /\ pc = "idle"
    /\ cur_states' = reset(transitions, cur_states)
    /\ last_op' = [op |-> "reset"]
    /\ prev_states' = cur_states
    /\ fed' = <<>>
    /\ ret' = {}
    /\ UNCHANGED <<regex, transitions, accepting, pc, eps_start, aux>>

\* feed(c); limit bounds the characters consumed between two resets
Feed(c, limit) ==
    /\ pc = "idle"
    /\ Len(fed) < limit
    /\ cur_states' = step(transitions, cur_states, c)
    /\ last_op' = [op |-> "feed", c |-> c]
    /\ prev_states' = cur_states
    /\ fed' = Append(fed, c)
    /\ ret' = {}
    /\ UNCHANGED <<regex, transitions, accepting, pc, eps_start, aux>>

Run(chars, limit) ==
    /\ pc = "idle"
    /\ Len(fed) + Len(chars) <= limit
    /\ cur_states' = run(transitions, accepting, cur_states, chars).cur_states
    /\ ret' = {run(transitions, accepting, cur_states, chars).ret}
    /\ last_op' = [op |-> "run", chars |-> chars, fresh |-> last_op.op = "new"]
    /\ prev_states' = cur_states
    /\ fed' = fed \o chars
    /\ UNCHANGED <<regex, transitions, accepting, pc, eps_start, aux>>

CheckAccepting ==
    /\ pc = "idle"
    /\ ret' = {check_accepting(cur_states, accepting)}
    /\ last_op' = [op |-> "check_accepting"]
    /\ prev_states' = cur_states
    /\ UNCHANGED <<regex, transitions, accepting, cur_states, pc, eps_start, fed, aux>>

Next ==
    \/ Reset
    \/ \E c \in Chars : Feed(c, MaxLen)
    \/ \E chars \in Strings(MaxLen) : Run(chars, MaxLen)
    \/ CheckAccepting

Spec == Init /\ [][Next]_vars

\* alternations, driven as in Spec
NextOr ==
    \/ Reset
    \/ \E c \in Chars : Feed(c, MaxOrLen)
    \/ \E chars \in Strings(MaxOrLen) : Run(chars, MaxOrLen)
    \/ CheckAccepting

SpecOr == InitOr /\ [][NextOr]_vars

\* right-nested Seq chains, driven as in Spec, one character past the chain
NextSeq ==
    \/ Reset
    \/ \E c \in Chars : Feed(c, MaxChain + 1)
    \/ \E chars \in Strings(MaxChain + 1) : Run(chars, MaxChain + 1)
    \/ CheckAccepting

SpecSeq == InitSeq /\ [][NextSeq]_vars

\* ------------------------------------------- take_epsilons, pass by pass
\* NFABuilder::build up to the reset of NFA::new: cleared, 0 inserted, about
\* to enter take_epsilons
InitEps ==
    \E r \in Regexes(MaxNodes) :
        LET a == add_regex(NewBuilder, <<0>>, r) IN
        /\ regex = r
        /\ transitions = a.b.transitions
        /\ accepting = SeqToSet(a.out)
        /\ cur_states = {0}
        /\ pc = "take_epsilons"
        /\ eps_start = {0}
        /\ last_op = [op |-> "new"]
        /\ prev_states = {}
        /\ fed = <<>>
        /\ ret = {}
        /\ AuxIdle

\* reset up to its call of take_epsilons
ResetCall ==
    /\ pc = "idle"
    /\ cur_states' = {0}
    /\ pc' = "take_epsilons"
    /\ eps_start' = {0}
    /\ last_op' = [op |-> "reset"]
    /\ prev_states' = cur_states
    /\ fed' = <<>>
    /\ ret' = {}
    /\ UNCHANGED <<regex, transitions, accepting, aux>>

\* feed(c): step up to its call of take_epsilons
FeedCall(c) ==
    /\ pc = "idle"
    /\ Len(fed) < MaxLen
    /\ cur_states' = StepTargets(transitions, cur_states, c)
    /\ pc' = "take_epsilons"
    /\ eps_start' = cur_states'
    /\ last_op' = [op |-> "feed", c |-> c]
    /\ prev_states' = cur_states
    /\ fed' = Append(fed, c)
    /\ ret' = {}
    /\ UNCHANGED <<regex, transitions, accepting, aux>>

\* one iteration of the loop of take_epsilons
EpsPass ==
    /\ pc = "take_epsilons"
    /\ LET new_states == EpsPassNew(transitions, cur_states)
       IN IF new_states = {}
          THEN pc' = "idle" /\ cur_states' = cur_states
          ELSE pc' = "take_epsilons" /\ cur_states' = cur_states \cup new_states
    /\ UNCHANGED <<regex, transitions, accepting, eps_start, last_op, prev_states,
                   fed, ret, aux>>

NextEps ==
    \/ ResetCall
    \/ \E c \in Chars : FeedCall(c)
    \/ EpsPass

\* the loop runs in one thread with nothing to wait for: it keeps iterating
SpecEps == InitEps /\ [][NextEps]_vars /\ WF_vars(EpsPass)

\* ------------------------------------------- two automata of one Regex
\* the NFA value whose cur_states field instance i reads and writes: its own
live_slot_Shared(i) == 1

live_slot(i) == i

LiveOf(i) == IF live_slot(i) = 1 THEN cur_states ELSE second.cur_states

FedOf(i) == IF i = 1 THEN fed ELSE second.fed

\* instance i ends a call with live set live, consumed input f and result r
InstEnds(i, live, f, r) ==
    /\ cur_states' = IF live_slot(i) = 1 THEN live ELSE cur_states
    /\ fed' = IF i = 1 THEN f ELSE fed
    /\ ret' = IF i = 1 THEN r ELSE ret
    /\ second' = [cur_states |-> IF live_slot(i) = 2 THEN live ELSE second.cur_states,
                  fed |-> IF i = 2 THEN f ELSE second.fed,
                  ret |-> IF i = 2 THEN r ELSE second.ret]
    /\ UNCHANGED <<regex, transitions, accepting, pc, eps_start, last_op,
                   prev_states, tested, iter>>

InitTwo ==
    \E r \in Regexes(MaxTwoNodes) :
        /\ BuiltFirst(r)
        /\ second = [cur_states |-> build(r).cur_states, fed |-> <<>>, ret |-> {}]
        /\ tested = {}
        /\ iter = NoIter

InstReset(i) == InstEnds(i, reset(transitions, LiveOf(i)), <<>>, {})

InstFeed(i, c) ==
    /\ Len(FedOf(i)) < MaxTwoLen
    /\ InstEnds(i, step(transitions, LiveOf(i), c), Append(FedOf(i), c), {})

InstRun(i, chars) ==
    /\ Len(FedOf(i)) + Len(chars) <= MaxTwoLen
    /\ LET res == run(transitions, accepting, LiveOf(i), chars)
       IN InstEnds(i, res.cur_states, FedOf(i) \o chars, {res.ret})

InstCheckAccepting(i) ==
    InstEnds(i, LiveOf(i), FedOf(i), {check_accepting(LiveOf(i), accepting)})

\* the calls on the two instances interleave in any order
NextTwo ==
    \E i \in 1..2 :
        \/ InstReset(i)
        \/ \E c \in Chars : InstFeed(i, c)
        \/ \E chars \in Strings(MaxTwoLen) : InstRun(i, chars)
        \/ InstCheckAccepting(i)

SpecTwo == InitTwo /\ [][NextTwo]_vars

\* ------------------------------------------- nested Plus and chains of Ques
RECURSIVE PlusNest(_, _)
\* n Plus nodes around CharSet(cs)
PlusNest(n, cs) == IF n = 0 THEN ReCharSet(cs) ELSE RePlus(PlusNest(n - 1, cs))

RECURSIVE QuesChains(_)
\* Seq(Ques(CharSet), Seq(Ques(CharSet), ...)) with exactly n Ques
QuesChains(n) ==
    IF n = 1 THEN {ReQues(ReCharSet(cs)) : cs \in LeafCharSets}
    ELSE {ReSeq(ReQues(ReCharSet(cs)), r) : cs \in LeafCharSets, r \in QuesChains(n - 1)}

InitSize ==
    \E n \in 1..MaxDepth :
        \E r \in {PlusNest(n, cs) : cs \in LeafCharSets} \cup QuesChains(n) : Built(r)

\* driven as in Spec, by one character at most
NextSize ==
    \/ Reset
    \/ \E c \in Chars : Feed(c, 1)
    \/ \E chars \in Strings(1) : Run(chars, 1)
    \/ CheckAccepting

SpecSize == InitSize /\ [][NextSize]_vars

\* ------------------------------------------- CharSet::test on its own
AtomCharSets ==
    {SingleChar(c) : c \in Chars} \cup {Range(lo, hi) : lo \in Chars, hi \in Chars}
        \cup {AnyChar}

MemberCharSets ==
    AtomCharSets \cup {Diff(AnyChar, SingleChar(1)),
                       Union(<<SingleChar(1), SingleChar(2)>>), Union(<<>>)}

\* the CharSets test is called on: no Epsilon, up to two levels of Diff and Union
TestCharSets ==
    MemberCharSets
        \cup {Diff(a, b) : a \in MemberCharSets, b \in MemberCharSets}
        \cup {Union(<<a>>) : a \in MemberCharSets}
        \cup {Union(<<a, b>>) : a \in MemberCharSets, b \in MemberCharSets}

InitCharSet == Built(ReEps)

\* cs.test(c)
Test(cs, c) ==
    /\ tested' = {[cs |-> cs, c |-> c, ret |-> test(cs, c)]}
    /\ UNCHANGED <<regex, transitions, accepting, cur_states, pc, eps_start,
                   last_op, prev_states, fed, ret, second, iter>>

NextCharSet == \E cs \in TestCharSets : \E c \in Chars : Test(cs, c)

SpecCharSet == InitCharSet /\ [][NextCharSet]_vars

\* ------------------------------------------- the loops, one live state at a time
\* the body of the outer for loop of step for cur_state, whose inner loop walks
\* the vector of cur_state in order; this variant stops inserting once new_states
\* holds a state
StepVisit_UnlessFound(trans, cur_state, c, new_states) ==
    IF new_states # {} THEN new_states
    ELSE IF cur_state \in DOMAIN trans
    THEN new_states \cup {trans[cur_state][i][2] : i \in
             {j \in 1..Len(trans[cur_state]) : test(trans[cur_state][j][1], c)}}
    ELSE new_states

\* the body of the outer for loop of step for cur_state: new_states afterwards
StepVisit(trans, cur_state, c, new_states) ==
    IF cur_state \in DOMAIN trans
    THEN new_states \cup {trans[cur_state][i][2] : i \in
             {j \in 1..Len(trans[cur_state]) : test(trans[cur_state][j][1], c)}}
    ELSE new_states

\* the body of the outer for loop of take_epsilons for cur_state: new_states
\* afterwards; cur is self.cur_states, which a pass does not change
EpsVisit(trans, cur, cur_state, new_states) ==
    IF cur_state \in DOMAIN trans
    THEN new_states \cup {trans[cur_state][i][2] : i \in
             {j \in 1..Len(trans[cur_state]) :
                 /\ trans[cur_state][j][1].tag = "Epsilon"
                 /\ trans[cur_state][j][2] \notin cur}}
    ELSE new_states

InitOrder == \E r \in Regexes(MaxNodes) : Built(r)

\* reset up to the first pass of take_epsilons
OrderReset ==
    /\ pc = "idle"
    /\ cur_states' = {0}
    /\ pc' = "take_epsilons"
    /\ eps_start' = {0}
    /\ iter' = [todo |-> {0}, new_states |-> {}]
    /\ last_op' = [op |-> "reset"]
    /\ prev_states' = cur_states
    /\ fed' = <<>>
    /\ ret' = {}
    /\ UNCHANGED <<regex, transitions, accepting, tested, second>>

\* feed(c): step is entered with an empty new_states and every live state to visit
OrderFeed(c) ==
    /\ pc = "idle"
    /\ Len(fed) < MaxLen
    /\ pc' = "step"
    /\ iter' = [todo |-> cur_states, new_states |-> {}]
    /\ last_op' = [op |-> "feed", c |-> c]
    /\ prev_states' = cur_states
    /\ fed' = Append(fed, c)
    /\ ret' = {}
    /\ UNCHANGED <<regex, transitions, accepting, cur_states, eps_start, tested, second>>

\* the hash set hands the loop of step any live state it has not handed out yet
OrderStepVisit ==
    /\ pc = "step"
    /\ \E cur_state \in iter.todo :
          iter' = [todo |-> iter.todo \ {cur_state},
                   new_states |-> StepVisit(transitions, cur_state, last_op.c,
                                            iter.new_states)]
    /\ UNCHANGED <<regex, transitions, accepting, cur_states, pc, eps_start, last_op,
                   prev_states, fed, ret, tested, second>>

\* the loop of step is over: the swap, then take_epsilons is entered
OrderStepSwap ==
    /\ pc = "step"
    /\ iter.todo = {}
    /\ cur_states' = iter.new_states
    /\ pc' = "take_epsilons"
    /\ eps_start' = iter.new_states
    /\ iter' = [todo |-> iter.new_states, new_states |-> {}]
    /\ UNCHANGED <<regex, transitions, accepting, last_op, prev_states, fed, ret,
                   tested, second>>

\* the hash set hands the for loop of take_epsilons any live state of this pass
OrderEpsVisit ==
    /\ pc = "take_epsilons"
    /\ \E cur_state \in iter.todo :
          iter' = [todo |-> iter.todo \ {cur_state},
                   new_states |-> EpsVisit(transitions, cur_states, cur_state,
                                           iter.new_states)]
    /\ UNCHANGED <<regex, transitions, accepting, cur_states, pc, eps_start, last_op,
                   prev_states, fed, ret, tested, second>>

\* the end of a pass: break, or extend cur_states, clear new_states and go round
OrderEpsPassEnd ==
    /\ pc = "take_epsilons"
    /\ iter.todo = {}
    /\ IF iter.new_states = {}
       THEN /\ pc' = "idle"
            /\ cur_states' = cur_states
            /\ iter' = NoIter
       ELSE /\ pc' = "take_epsilons"
            /\ cur_states' = cur_states \cup iter.new_states
            /\ iter' = [todo |-> cur_states', new_states |-> {}]
    /\ UNCHANGED <<regex, transitions, accepting, eps_start, last_op, prev_states,
                   fed, ret, tested, second>>

NextOrder ==
    \/ OrderReset
    \/ \E c \in Chars : OrderFeed(c)
    \/ OrderStepVisit
    \/ OrderStepSwap
    \/ OrderEpsVisit
    \/ OrderEpsPassEnd
    \/ CheckAccepting

SpecOrder == InitOrder /\ [][NextOrder]_vars

\* ---------------------------------------------------------------- reference notions
\* the characters a CharSet denotes, by the set-theoretic reading of its variants
RECURSIVE Denotes(_)
Denotes(cs) ==
    CASE cs.tag = "SingleChar" -> {cs.c} \cap Chars
      [] cs.tag = "Range" -> {c \in Chars : cs.lo <= c /\ c <= cs.hi}
      [] cs.tag = "AnyChar" -> Chars
      [] cs.tag = "Diff" -> Denotes(cs.include) \ Denotes(cs.exclude)
      [] cs.tag = "Union" -> UNION {Denotes(cs.css[i]) : i \in 1..Len(cs.css)}
      [] cs.tag = "Epsilon" -> {}

\* s is in the language of r under the standard semantics
RECURSIVE Matches(_, _)
Matches(r, s) ==
    LET n == Len(s)
        pre(i) == SubSeq(s, 1, i)
        post(i) == SubSeq(s, i + 1, n)
    IN CASE r.tag = "Eps" -> n = 0
         [] r.tag = "CharSet" -> n = 1 /\ s[1] \in Denotes(r.cs)
         [] r.tag = "Seq" -> \E i \in 0..n : Matches(r.r1, pre(i)) /\ Matches(r.r2, post(i))
         [] r.tag = "Or" -> Matches(r.r1, s) \/ Matches(r.r2, s)
         [] r.tag = "Star" ->
               n = 0 \/ \E i \in 1..n : Matches(r.r, pre(i)) /\ Matches(r, post(i))
         [] r.tag = "Plus" ->
               \E i \in 0..n : Matches(r.r, pre(i)) /\ Matches(ReStar(r.r), post(i))
         [] r.tag = "Ques" -> n = 0 \/ Matches(r.r, s)

\* X contains the target of every Epsilon transition that leaves a state of X
EpsClosed(trans, X) ==
    \A s \in X \cap DOMAIN trans : \A i \in 1..Len(trans[s]) :
        trans[s][i][1].tag = "Epsilon" => trans[s][i][2] \in X

\* X is the least Epsilon-closed superset of S
IsEpsClosureOf(trans, S, X) ==
    /\ S \subseteq X
    /\ EpsClosed(trans, X)
    /\ \A Z \in SUBSET (X \ S) : EpsClosed(trans, S \cup Z) => Z = X \ S

\* targets of the transitions of cur whose label is not Epsilon and matches c
ConsumingTargets(trans, cur, c) ==
    {t \in UNION {{ts[2] : ts \in SeqToSet(trans[s])} : s \in cur \cap DOMAIN trans} :
        \E s \in cur \cap DOMAIN trans : \E i \in 1..Len(trans[s]) :
            /\ trans[s][i][1].tag # "Epsilon"
            /\ c \in Denotes(trans[s][i][1])
            /\ trans[s][i][2] = t}

\* what run(chars) returns on the automaton freshly built from r
FreshRun(r, chars) ==
    LET nfa == build(r)
    IN run(nfa.transitions, nfa.accepting, nfa.cur_states, chars).ret

\* ---------------------------------------------------------------- claims

\* C1: for every Regex r and every string s, run(s) on the automaton freshly
\* built from r returns true iff s is in the language of r.
C1_FreshRunDecidesLanguage ==
    (last_op.op = "run" /\ last_op.fresh) => ret = {Matches(regex, last_op.chars)}

\* C2: the live set after feed(c) is exactly the Epsilon closure of the targets
\* of the transitions of the previous live set whose label is not Epsilon and
\* matches c: feed never takes an Epsilon transition as its consuming step.
C2_FeedSkipsEpsilon ==
    last_op.op = "feed" =>
        IsEpsClosureOf(transitions,
                       ConsumingTargets(transitions, prev_states, last_op.c),
                       cur_states)

\* C3: in every state the caller can observe (after new, reset, feed and run)
\* the live set is Epsilon-closed.
C3_LiveSetEpsClosed == EpsClosed(transitions, cur_states)

\* a feed whose closure added the target of an Epsilon transition
C3_Witness ==
    /\ last_op.op = "feed"
    /\ \E s \in cur_states \cap DOMAIN transitions : \E i \in 1..Len(transitions[s]) :
          /\ transitions[s][i][1].tag = "Epsilon"
          /\ transitions[s][i][2] # s
          /\ transitions[s][i][2] \in cur_states

\* C4: reset, whatever the live set was, leaves the Epsilon closure of {0},
\* which is the live set of the freshly built automaton; so a reset that follows
\* a reset changes nothing.
C4_ResetRestoresFresh ==
    last_op.op = "reset" =>
        /\ IsEpsClosureOf(transitions, {0}, cur_states)
        /\ cur_states = build(regex).cur_states

\* a reset made on an empty live set
C4_Witness == last_op.op = "reset" /\ prev_states = {} /\ cur_states # {}

\* C5: a call other than reset that finds the live set empty leaves it empty,
\* and returns false if it returns anything.
C5_EmptyStaysEmpty ==
    (last_op.op \in {"feed", "run", "check_accepting"} /\ prev_states = {}) =>
        cur_states = {} /\ ret # {TRUE}

\* a feed made on a live set that an earlier feed had emptied
C5_Witness ==
    last_op.op = "feed" /\ prev_states = {} /\ cur_states = {} /\ Len(fed) >= 2

RECURSIVE FeedAll(_, _, _)
\* the live set after feed(chars[1]), ..., feed(chars[n]) from cur
FeedAll(trans, cur, chars) ==
    IF chars = <<>> THEN cur
    ELSE step(trans, FeedAll(trans, cur, SubSeq(chars, 1, Len(chars) - 1)),
              chars[Len(chars)])

\* C6: run(chars) leaves the live set that feeding chars one by one leaves and
\* returns what check_accepting returns there; it does not reset, so the result
\* is that of all the characters consumed since the last reset.
C6_RunIsRepeatedFeed ==
    last_op.op = "run" =>
        /\ cur_states = FeedAll(transitions, prev_states, last_op.chars)
        /\ ret = {cur_states \cap accepting # {}}
        /\ cur_states = FeedAll(transitions, reset(transitions, {}), fed)

\* a run that started mid-match, after other characters had been consumed
C6_Witness ==
    /\ last_op.op = "run"
    /\ last_op.chars # <<>>
    /\ fed # last_op.chars
    /\ cur_states # {}
    /\ cur_states # reset(transitions, {})

\* C7: check_accepting returns true iff a live state is accepting, and leaves
\* the live set, the transition table and the accepting set as they were.
C7_CheckAcceptingPure ==
    last_op.op = "check_accepting" =>
        /\ ret = {cur_states \cap accepting # {}}
        /\ cur_states = prev_states
        /\ transitions = build(regex).transitions
        /\ accepting = build(regex).accepting

\* check_accepting returned true with a live state that is not accepting
C7_Witness ==
    /\ last_op.op = "check_accepting"
    /\ ret = {TRUE}
    /\ ~(cur_states \subseteq accepting)

\* C9: the automaton built from Or(r1, r2) accepts a string iff the automaton
\* built from r1 or the automaton built from r2 accepts it.
C9_OrIsUnion ==
    (last_op.op = "run" /\ last_op.fresh /\ regex.tag = "Or") =>
        ret = {FreshRun(regex.r1, last_op.chars) \/ FreshRun(regex.r2, last_op.chars)}

\* C8: take_epsilons terminates on every table the builder produces, Epsilon
\* self-loops and cycles included; while it runs no state leaves the live set;
\* when it ends the live set is the least Epsilon-closed superset of the set it
\* started from.
C8_ClosureTerminates ==
    /\ (pc = "take_epsilons") ~> (pc = "idle")
    /\ [][pc = "take_epsilons" => cur_states \subseteq cur_states']_vars
    /\ [](pc = "idle" => IsEpsClosureOf(transitions, eps_start, cur_states))

\* take_epsilons has ended after adding states, on a table where two distinct
\* live states have Epsilon transitions to each other
C8_Witness ==
    /\ pc = "idle"
    /\ cur_states # eps_start
    /\ \E s, t \in cur_states \cap DOMAIN transitions :
          /\ s # t
          /\ \E i \in 1..Len(transitions[s]) :
                transitions[s][i][1].tag = "Epsilon" /\ transitions[s][i][2] = t
          /\ \E i \in 1..Len(transitions[t]) :
                transitions[t][i][1].tag = "Epsilon" /\ transitions[t][i][2] = s

RECURSIVE ChainLeaves(_)
\* the CharSet leaves cs1..csn of a right-nested Seq
ChainLeaves(r) ==
    IF r.tag = "CharSet" THEN <<r.cs>> ELSE <<r.r1.cs>> \o ChainLeaves(r.r2)

\* C10: the automaton freshly built from a right-nested Seq of n CharSet leaves
\* accepts a string iff it has exactly n characters and its i-th character is
\* in the i-th leaf, for every i.
C10_SeqExactLength ==
    (last_op.op = "run" /\ last_op.fresh) =>
        LET leaves == ChainLeaves(regex)
            chars == last_op.chars
        IN ret = {/\ Len(chars) = Len(leaves)
                  /\ \A i \in 1..Len(leaves) : chars[i] \in Denotes(leaves[i])}

\* a chain of two leaves rejected a string that extends one it accepts
C10_Witness ==
    /\ last_op.op = "run" /\ last_op.fresh
    /\ ret = {FALSE}
    /\ LET leaves == ChainLeaves(regex)
       IN /\ Len(leaves) = 2
          /\ Len(last_op.chars) = 3
          /\ \A i \in 1..2 : last_op.chars[i] \in Denotes(leaves[i])

\* the last call was run(chars) on the freshly built automaton of a Regex with
\* root tag over a single CharSet leaf
FreshRunOver(tag) ==
    /\ last_op.op = "run" /\ last_op.fresh
    /\ regex.tag = tag /\ regex.r.tag = "CharSet"

\* every character of chars is in cs
AllIn(chars, cs) == \A i \in 1..Len(chars) : chars[i] \in Denotes(cs)

\* C11: the automaton freshly built from Star(CharSet(cs)) accepts every string,
\* the empty one included, whose characters all satisfy cs.
C11_StarZeroOrMore ==
    (FreshRunOver("Star") /\ AllIn(last_op.chars, regex.r.cs)) => ret = {TRUE}

\* Star(CharSet(cs)) accepted a string of MaxLen characters of cs
C11_Witness ==
    /\ FreshRunOver("Star") /\ AllIn(last_op.chars, regex.r.cs)
    /\ Len(last_op.chars) = MaxLen
    /\ ret = {TRUE}

\* C12: the automaton freshly built from Plus(CharSet(cs)) rejects the empty
\* string and accepts every string of one or more characters that satisfy cs.
C12_PlusOneOrMore ==
    FreshRunOver("Plus") =>
        /\ last_op.chars = <<>> => ret = {FALSE}
        /\ (last_op.chars # <<>> /\ AllIn(last_op.chars, regex.r.cs)) => ret = {TRUE}

\* Plus(CharSet(cs)) accepted a string of MaxLen characters of cs
C12_Witness ==
    /\ FreshRunOver("Plus") /\ AllIn(last_op.chars, regex.r.cs)
    /\ Len(last_op.chars) = MaxLen
    /\ ret = {TRUE}

\* C13: the automaton freshly built from Ques(CharSet(cs)) accepts the empty
\* string and every one-character string of cs, and rejects every string of two
\* or more characters.
C13_QuesZeroOrOne ==
    FreshRunOver("Ques") =>
        /\ last_op.chars = <<>> => ret = {TRUE}
        /\ (Len(last_op.chars) = 1 /\ AllIn(last_op.chars, regex.r.cs)) => ret = {TRUE}
        /\ Len(last_op.chars) >= 2 => ret = {FALSE}

\* Ques(CharSet(cs)) rejected a string of two characters of cs
C13_Witness ==
    /\ FreshRunOver("Ques") /\ AllIn(last_op.chars, regex.r.cs)
    /\ Len(last_op.chars) = 2
    /\ ret = {FALSE}

\* C14: on every CharSet without Epsilon, test(c) is membership of c in the set
\* the CharSet denotes (SingleChar: c = x; Range: lo <= c <= hi; AnyChar: all;
\* Diff: in include and not in exclude; Union: in some member, none if empty),
\* and a Union of two members answers the same with its members swapped.
C14_TestIsMembership ==
    \A t \in tested :
        /\ t.ret = (t.c \in Denotes(t.cs))
        /\ (t.cs.tag = "Union" /\ Len(t.cs.css) = 2) =>
              t.ret = test(Union(<<t.cs.css[2], t.cs.css[1]>>), t.c)

\* a Union whose first member rejects the character and whose second accepts it
C14_Witness ==
    \E t \in tested :
        /\ t.cs.tag = "Union" /\ Len(t.cs.css) = 2
        /\ t.c \notin Denotes(t.cs.css[1])
        /\ t.c \in Denotes(t.cs.css[2])
        /\ t.ret = TRUE

\* C15 as stated: AnyChar is the identity for union, Union([A, AnyChar]).test(c)
\* and Union([AnyChar, A]).test(c) equal A.test(c).
C15_AnyCharUnionIdentity ==
    \A t \in tested :
        (t.cs.tag = "Union" /\ Len(t.cs.css) = 2) =>
            /\ t.cs.css[2].tag = "AnyChar" => t.ret = test(t.cs.css[1], t.c)
            /\ t.cs.css[1].tag = "AnyChar" => t.ret = test(t.cs.css[2], t.c)

\* C15 amended: AnyChar is absorbing for union, Union([A, AnyChar]).test(c) and
\* Union([AnyChar, A]).test(c) are true for every CharSet A and character c.
C15_AnyCharUnionAbsorbs ==
    \A t \in tested :
        (/\ t.cs.tag = "Union" /\ Len(t.cs.css) = 2
         /\ (t.cs.css[1].tag = "AnyChar" \/ t.cs.css[2].tag = "AnyChar")) =>
            t.ret = TRUE

\* Union([A, AnyChar]) tested on a character that A rejects
C15_Witness ==
    \E t \in tested :
        /\ t.cs.tag = "Union" /\ Len(t.cs.css) = 2
        /\ t.cs.css[2].tag = "AnyChar"
        /\ ~test(t.cs.css[1], t.c)
        /\ t.ret = TRUE

\* the live set and, if the last call returned one, the result of an instance
\* driven alone: f is what it consumed since its last reset
AloneOk(live, f, r) ==
    /\ live = FeedAll(transitions, reset(transitions, {}), f)
    /\ r \subseteq {live \cap accepting # {}}

\* C16: under every interleaving of the calls on two automata built from the
\* same Regex, each has the live set and the results it would have if driven
\* alone with its own calls, and table and accepting set stay as built.
C16_InstancesIndependent ==
    /\ AloneOk(cur_states, fed, ret)
    /\ AloneOk(second.cur_states, second.fed, second.ret)
    /\ transitions = build(regex).transitions
    /\ accepting = build(regex).accepting

\* both instances mid-match on different inputs, with different live sets
C16_Witness ==
    /\ fed # <<>> /\ second.fed # <<>>
    /\ fed # second.fed
    /\ cur_states # second.cur_states
    /\ cur_states # {}

\* C17: NFABuilder::build(Plus(r)) and NFABuilder::build(Seq(r, Star(r))) give
\* the same transition table and the same accepting set, so the two automata
\* return the same on every string.
C17_PlusIsSeqStar ==
    regex.tag = "Plus" =>
        LET other == build(ReSeq(regex.r, ReStar(regex.r)))
        IN /\ transitions = other.transitions
           /\ accepting = other.accepting
           /\ (last_op.op = "run" /\ last_op.fresh) =>
                 ret = {FreshRun(ReSeq(regex.r, ReStar(regex.r)), last_op.chars)}

\* a Plus whose body allocates states was built and run through its loop
C17_Witness ==
    /\ regex.tag = "Plus"
    /\ last_op.op = "run" /\ last_op.fresh
    /\ Len(last_op.chars) = MaxLen
    /\ ret = {TRUE}
    /\ \E s \in DOMAIN transitions : \E i \in 1..Len(transitions[s]) :
          transitions[s][i][1].tag = "Epsilon" /\ transitions[s][i][2] # 0

RECURSIVE Nodes(_)
\* the number of AST nodes of a Regex
Nodes(r) ==
    CASE r.tag \in {"Eps", "CharSet"} -> 1
      [] r.tag \in {"Seq", "Or"} -> 1 + Nodes(r.r1) + Nodes(r.r2)
      [] r.tag \in {"Star", "Plus", "Ques"} -> 1 + Nodes(r.r)

\* the <<state, index>> positions of the transitions whose label is not Epsilon
Consuming(trans) ==
    {p \in UNION {{<<s, i>> : i \in 1..Len(trans[s])} : s \in DOMAIN trans} :
        trans[p[1]][p[2]][1].tag # "Epsilon"}

\* C18: build allocates the states 1, 2, 3, ... in increasing order, never 0 and
\* never one twice, one per frontier entry of every CharSet node: each allocated
\* state is the target of exactly one transition that is not Epsilon, 0 of none.
C18_FreshTargets ==
    LET cons == Consuming(transitions)
        target(p) == transitions[p[1]][p[2]][2]
    IN /\ \A p \in cons : \A q \in cons : p # q => target(p) # target(q)
       /\ {target(p) : p \in cons} = 1..Allocated(regex)
       /\ \A p \in cons : \A q \in cons :
             (p[1] = q[1] /\ p[2] < q[2]) => target(p) < target(q)

\* two states of a frontier carry the same CharSet to two different targets: a
\* CharSet node allocated more than one state
C18_Witness ==
    \E p \in Consuming(transitions) : \E q \in Consuming(transitions) :
        /\ p[1] # q[1]
        /\ transitions[p[1]][p[2]][1] = transitions[q[1]][q[2]][1]
        /\ transitions[p[1]][p[2]][2] + 1 = transitions[q[1]][q[2]][2]
        /\ Allocated(regex) > Nodes(regex)

RECURSIVE PlusDepth(_)
PlusDepth(r) == IF r.tag = "Plus" THEN 1 + PlusDepth(r.r) ELSE 0

RECURSIVE QuesCount(_)
QuesCount(r) == IF r.tag = "Seq" THEN 1 + QuesCount(r.r2) ELSE 1

\* C19 as stated, for the factors up to MaxFactor: the states allocated for a
\* Regex are at most k times its nodes.
C19_LinearSize == Allocated(regex) <= MaxFactor * Nodes(regex)

\* C19 amended: n Plus nodes around a CharSet allocate exactly 2^n states and a
\* chain of n Ques(CharSet) allocates exactly 2^n - 1: the size doubles with
\* every Plus or Ques added.
C19_ExponentialSize ==
    /\ regex.tag = "Plus" => Allocated(regex) = 2 ^ PlusDepth(regex)
    /\ regex.tag # "Plus" => Allocated(regex) = 2 ^ QuesCount(regex) - 1
    /\ Cardinality({transitions[p[1]][p[2]][2] : p \in Consuming(transitions)})
          = Allocated(regex)

\* the deepest nest of Plus was built and has more than MaxFactor states a node
C19_Witness ==
    /\ PlusDepth(regex) = MaxDepth
    /\ Allocated(regex) > MaxFactor * Nodes(regex)
    /\ last_op.op = "new"

\* C20: whatever order the hash set hands out the live states in, in the loop of
\* step and in every pass of take_epsilons, a finished feed leaves the one live
\* set that the table, the prior live set and the character determine, a finished
\* reset leaves the closure of {0}, and the boolean returned afterwards is the one
\* that the characters fed since the last reset determine.
C20_OrderIndependent ==
    pc = "idle" =>
        /\ last_op.op = "feed" =>
              cur_states = step(transitions, prev_states, last_op.c)
        /\ last_op.op = "reset" => cur_states = take_epsilons(transitions, {0})
        /\ cur_states = FeedAll(transitions, take_epsilons(transitions, {0}), fed)
        /\ \A b \in ret :
              b = check_accepting(FeedAll(transitions, take_epsilons(transitions, {0}), fed),
                                  accepting)

\* a feed has finished whose loop had two live states to visit, in either order,
\* that lead to different states, and whose closure had two states to visit
C20_Witness ==
    /\ pc = "idle"
    /\ last_op.op = "feed"
    /\ \E s1 \in prev_states : \E s2 \in prev_states :
          LET n1 == StepVisit(transitions, s1, last_op.c, {})
              n2 == StepVisit(transitions, s2, last_op.c, {})
          IN s1 # s2 /\ n1 # {} /\ n2 # {} /\ n1 # n2
    /\ Cardinality(StepTargets(transitions, prev_states, last_op.c)) >= 2

====
